---- MODULE Spec2Model ----
(***************************************************************************)
(* Number-theoretic primitives of integer_advanced.py (bitset on a single  *)
(* integer, extended Euclid, modular inverse / exponent, Miller-Rabin,     *)
(* odd-only sieve) and gcd of integer_basics.py.                           *)
(*                                                                         *)
(* Every function of the source is an operator of the same name; every     *)
(* subsystem has one record-valued variable holding the arguments, the     *)
(* locals and the position of one call, and one specification.  The        *)
(* variables of the other subsystems rest at Idle.                         *)
(***************************************************************************)
EXTENDS Integers, Sequences, FiniteSets, TLC

VARIABLES eg, md, bi, bt, sv, mr, wt

vars == <<eg, md, bi, bt, sv, mr, wt>>

Idle == [pc |-> "idle"]

(***************************************************************************)
(* Bounds of the model.                                                    *)
(***************************************************************************)
\* egcd / modinv / modexp arguments range over -MaxInt..MaxInt
MaxInt == 9
\* exponents of modexp range over 0..MaxExp
MaxExp == 4
\* indices handed to bitset_from_indices range over 0..MaxIdx
MaxIdx == 4
\* indices handed to bitset_add / bitset_remove range over 0..MaxBit
MaxBit == 6
\* sieve limits range over -2..MaxLimit
MaxLimit == 50
\* is_probable_prime is called on 0..MaxN and on LargeInputs
MaxN == 2100
\* _check_witness is called on every n of 2..MaxW that passes trial division
MaxW == 1000
\* collections handed to bitset_from_indices have at most MaxLen elements
MaxLen == 3

(***************************************************************************)
(* Python integer semantics.                                               *)
(***************************************************************************)
Abs(v) == IF v < 0 THEN -v ELSE v

\* v // w : floor division, any sign of w except 0
FloorDiv(v, w) == IF w > 0 THEN v \div w ELSE (-v) \div (-w)

\* v % w : the remainder has the sign of w
PyMod(v, w) == v - w * FloorDiv(v, w)

\* v & w on two's-complement integers of unbounded width
RECURSIVE BitAnd(_, _)
BitAnd(v, w) ==
    IF v = 0 \/ w = 0 THEN 0
    ELSE IF v = -1 THEN w
    ELSE IF w = -1 THEN v
    ELSE (v % 2) * (w % 2) + 2 * BitAnd(v \div 2, w \div 2)

\* v | w
RECURSIVE BitOr(_, _)
BitOr(v, w) ==
    IF v = 0 THEN w
    ELSE IF w = 0 THEN v
    ELSE IF v = -1 \/ w = -1 THEN -1
    ELSE (IF v % 2 = 1 \/ w % 2 = 1 THEN 1 ELSE 0)
           + 2 * BitOr(v \div 2, w \div 2)

\* ~v
BitNot(v) == -v - 1

\* v ^ w
RECURSIVE BitXor(_, _)
BitXor(v, w) ==
    IF v = 0 THEN w
    ELSE IF w = 0 THEN v
    ELSE IF v = -1 THEN BitNot(w)
    ELSE IF w = -1 THEN BitNot(v)
    ELSE (IF v % 2 # w % 2 THEN 1 ELSE 0) + 2 * BitXor(v \div 2, w \div 2)

\* v << k and v >> k for k >= 0
Shl(v, k) == v * 2^k

Shr(v, k) == v \div 2^k

\* int.bit_length
RECURSIVE bit_length(_)
bit_length(v) == IF v = 0 THEN 0 ELSE 1 + bit_length(Abs(v) \div 2)

Ok(v) == [tag |-> "ok", val |-> v]

Raise(e) == [tag |-> "raise", exc |-> e]

(***************************************************************************)
(* Number theory: gcd (integer_basics.py), egcd, modinv, modexp.           *)
(***************************************************************************)
RECURSIVE gcd(_, _)
gcd(a, b) == IF b # 0 THEN gcd(b, PyMod(a, b)) ELSE Abs(a)

\* the locals of egcd before the loop
egcd_init(a, b) ==
    [old_r |-> a, r |-> b, old_s |-> 1, s |-> 0, old_t |-> 0, t |-> 1]

\* egcd_body with the last coefficient update reading s for t
egcd_body_coeff_slip(st) ==
    LET q == FloorDiv(st.old_r, st.r)
    IN  [old_r |-> st.r, r |-> st.old_r - q * st.r,
         old_s |-> st.s, s |-> st.old_s - q * st.s,
         old_t |-> st.t, t |-> st.old_t - q * st.s]

\* one iteration of the loop of egcd
egcd_body(st) ==
    LET q == FloorDiv(st.old_r, st.r)
    IN  [old_r |-> st.r, r |-> st.old_r - q * st.r,
         old_s |-> st.s, s |-> st.old_s - q * st.s,
         old_t |-> st.t, t |-> st.old_t - q * st.t]

\* egcd_result returning the current coefficients instead of the previous ones
egcd_result_current(st) == <<st.old_r, st.s, st.t>>

egcd_result(st) == <<st.old_r, st.old_s, st.old_t>>

RECURSIVE egcd_loop(_)
egcd_loop(st) == IF st.r # 0 THEN egcd_loop(egcd_body(st)) ELSE egcd_result(st)

egcd(a, b) == egcd_loop(egcd_init(a, b))

\* modinv without the final reduction of x modulo m
modinv_unreduced(a, m) ==
    IF m = 0
    THEN Raise("ZeroDivisionError")
    ELSE LET res == egcd(PyMod(a, m), m)
         IN  IF res[1] # 1
             THEN Raise("ValueError")
             ELSE Ok(res[2])

modinv(a, m) ==
    IF m = 0
    THEN Raise("ZeroDivisionError")
    ELSE LET res == egcd(PyMod(a, m), m)
         IN  IF res[1] # 1
             THEN Raise("ValueError")
             ELSE Ok(PyMod(res[2], m))

\* the built-in pow(base, exp, mod) for exp >= 0 and mod # 0: square and
\* multiply, every product reduced with the sign of mod
RECURSIVE PowMod(_, _, _)
PowMod(base, exp, mod) ==
    IF exp = 0
    THEN PyMod(1, mod)
    ELSE LET h == PowMod(base, exp \div 2, mod)
             sq == PyMod(h * h, mod)
         IN  IF exp % 2 = 1 THEN PyMod(sq * PyMod(base, mod), mod) ELSE sq

modexp(base, exp, mod) ==
    IF mod = 0
    THEN Raise("ValueError")
    ELSE Ok(PowMod(base, exp, mod))

(***************************************************************************)
(* Bitset on a single integer.                                             *)
(***************************************************************************)
\* the loop of bitset_from_indices over indices[k..], bs accumulated so far
RECURSIVE from_indices_loop(_, _, _)
from_indices_loop(indices, k, bs) ==
    IF k > Len(indices) THEN Ok(bs)
    ELSE IF indices[k] < 0 THEN Raise("ValueError")
    ELSE from_indices_loop(indices, k + 1, BitOr(bs, Shl(1, indices[k])))

\* from_indices_loop toggling the bit instead of setting it
RECURSIVE from_indices_loop_toggle(_, _, _)
from_indices_loop_toggle(indices, k, bs) ==
    IF k > Len(indices) THEN Ok(bs)
    ELSE IF indices[k] < 0 THEN Raise("ValueError")
    ELSE from_indices_loop_toggle(indices, k + 1, BitXor(bs, Shl(1, indices[k])))

\* bitset_from_indices that toggles
bitset_from_indices_toggle(indices) == from_indices_loop_toggle(indices, 1, 0)

bitset_from_indices(indices) == from_indices_loop(indices, 1, 0)

bitset_add(bs, i) == BitOr(bs, Shl(1, i))

\* bitset_remove that flips the bit instead of clearing it
bitset_remove_flip(bs, i) == BitXor(bs, Shl(1, i))

bitset_remove(bs, i) == BitAnd(bs, BitNot(Shl(1, i)))

bitset_contains(bs, i) == BitAnd(Shr(bs, i), 1) = 1

\* lb = bs & -bs : the lowest set bit of bs
bitset_iter_lowest(bs) == BitAnd(bs, -bs)

\* the index bitset_iter yields for the isolated bit lb
bitset_iter_index(lb) == bit_length(lb) - 1

\* bs ^= lb : the statement after the yield, run when the generator is resumed
bitset_iter_clear(bs, lb) == BitXor(bs, lb)

\* everything bitset_iter(bs) yields when run to exhaustion, bs >= 0
RECURSIVE bitset_iter(_)
bitset_iter(bs) ==
    IF bs # 0
    THEN LET lb == bitset_iter_lowest(bs)
         IN  <<bitset_iter_index(lb)>> \o bitset_iter(bitset_iter_clear(bs, lb))
    ELSE <<>>

\* a generator frame of bitset_iter: not started yet, holding its argument
gen_start(bs) == [at |-> "start", bs |-> bs]

\* the value of the frame's bs when control reaches the loop test: a frame
\* suspended at the yield first runs bs ^= lb
gen_loop_head(gen) ==
    IF gen.at = "yield" THEN bitset_iter_clear(gen.bs, gen.lb) ELSE gen.bs

\* the frame suspended at the yield, bs being the value the loop test saw:
\* lb is set, the bit is not cleared yet
gen_suspend(bs) == [at |-> "yield", bs |-> bs, lb |-> bitset_iter_lowest(bs)]

\* the frame after StopIteration
gen_closed == [at |-> "closed"]

(***************************************************************************)
(* Miller-Rabin primality test.                                            *)
(***************************************************************************)
_DET_BASES_64 == <<2, 3, 5, 7, 11, 13, 17>>

\* the default of the rounds parameter
DefaultRounds == 8

\* n < (1 << 64) compares n with a 65-bit number: n has at most 64 bits
DetBits == 64

small == <<2, 3, 5, 7, 11, 13, 17, 19, 23, 29>>

\* the loop of _decompose
RECURSIVE decompose_loop(_, _)
decompose_loop(d, s) ==
    IF d % 2 = 0 THEN decompose_loop(d \div 2, s + 1) ELSE <<d, s>>

_decompose(n) == decompose_loop(n - 1, 0)

\* the squaring loop of _check_witness with `left` rounds to go
RECURSIVE witness_loop(_, _, _)
witness_loop(x, left, n) ==
    IF left <= 0 THEN FALSE
    ELSE LET sq == PyMod(x * x, n)
         IN  IF sq = n - 1 THEN TRUE ELSE witness_loop(sq, left - 1, n)

\* _check_witness that accepts x = 1 only before the squaring loop
_check_witness_one_only(a, s, d, n) ==
    LET x == PowMod(a, d, n)
    IN  IF x = 1 THEN TRUE ELSE witness_loop(x, s - 1, n)

_check_witness(a, s, d, n) ==
    LET x == PowMod(a, d, n)
    IN  IF x \in {1, n - 1} THEN TRUE ELSE witness_loop(x, s - 1, n)

\* the trial-division loop of is_probable_prime from small[k] on, n >= 2
RECURSIVE trial_division(_, _)
trial_division(n, k) ==
    IF k > Len(small) THEN "pass"
    ELSE IF n = small[k] THEN "prime"
    ELSE IF n % small[k] = 0 THEN "composite"
    ELSE trial_division(n, k + 1)

\* n < (1 << 64), for n >= 2
BelowDetLimit(n) == bit_length(n) <= DetBits

\* the values random.randrange(2, n - 2) can return
RandRange(n) == 2..(n - 3)

all_witnesses(bases, s, d, n) ==
    \A k \in 1..Len(bases) : _check_witness(bases[k], s, d, n)

\* is_probable_prime; draws are the `rounds` results of random.randrange,
\* read only when n >= 2^64
is_probable_prime(n, rounds, draws) ==
    IF n < 2 THEN FALSE
    ELSE LET verdict == trial_division(n, 1)
         IN  IF verdict = "prime" THEN TRUE
             ELSE IF verdict = "composite" THEN FALSE
             ELSE LET ds == _decompose(n)
                      bases == IF BelowDetLimit(n) THEN _DET_BASES_64 ELSE draws
                  IN  all_witnesses(bases, ds[2], ds[1], n)

(***************************************************************************)
(* Integers beyond 2^31.  Python integers have no width; the deterministic *)
(* range of is_probable_prime reaches 2^64.  A wide integer is a natural   *)
(* number held as its limbs of LimbBits bits, lowest first, without a      *)
(* leading zero limb: <<>> is 0.  No sum or product of limbs reaches 2^31. *)
(***************************************************************************)
LimbBits == 15

Base == 2^LimbBits

\* the wide integer of a natural number below 2^31
RECURSIVE W(_)
W(k) == IF k = 0 THEN <<>> ELSE <<k % Base>> \o W(k \div Base)

\* the natural number of a wide integer of at most one limb
WSmall(x) == IF x = <<>> THEN 0 ELSE x[1]

Limb(x, i) == IF i <= Len(x) THEN x[i] ELSE 0

RECURSIVE WTrim(_)
WTrim(x) ==
    IF x = <<>> THEN <<>>
    ELSE IF x[Len(x)] = 0 THEN WTrim(SubSeq(x, 1, Len(x) - 1))
    ELSE x

\* e, once v has its value, so that no chain of pending operations builds up
After(v, e) == IF v = v THEN e ELSE e

\* x + y
RECURSIVE WAddFrom(_, _, _, _)
WAddFrom(x, y, i, carry) ==
    IF i > Len(x) /\ i > Len(y)
    THEN (IF carry = 0 THEN <<>> ELSE <<carry>>)
    ELSE LET t == Limb(x, i) + Limb(y, i) + carry
         IN  <<t % Base>> \o WAddFrom(x, y, i + 1, t \div Base)

WAdd(x, y) == WAddFrom(x, y, 1, 0)

\* x - y for x >= y
RECURSIVE WSubFrom(_, _, _, _)
WSubFrom(x, y, i, borrow) ==
    IF i > Len(x) THEN <<>>
    ELSE LET t == x[i] - Limb(y, i) - borrow
         IN  <<IF t < 0 THEN t + Base ELSE t>>
               \o WSubFrom(x, y, i + 1, IF t < 0 THEN 1 ELSE 0)

WSub(x, y) == WTrim(WSubFrom(x, y, 1, 0))

\* x < y
RECURSIVE WLessAt(_, _, _)
WLessAt(x, y, i) ==
    IF i = 0 THEN FALSE
    ELSE IF x[i] # y[i] THEN x[i] < y[i]
    ELSE WLessAt(x, y, i - 1)

WLess(x, y) == IF Len(x) # Len(y) THEN Len(x) < Len(y) ELSE WLessAt(x, y, Len(x))

\* x % 2 = 1
WOdd(x) == x # <<>> /\ x[1] % 2 = 1

\* x // 2
WHalf(x) ==
    WTrim([i \in 1..Len(x) |-> (x[i] \div 2) + (Limb(x, i + 1) % 2) * (Base \div 2)])

\* (x + y) % n for x, y < n
WAddMod(x, y, n) ==
    LET t == WAdd(x, y) IN IF WLess(t, n) THEN t ELSE WSub(t, n)

\* (t * 2^i + x * (limb % 2^i)) % n for t, x < n: the low i bits of limb taken
\* from the top, t doubled for each and x added for a set bit
RECURSIVE WMulBits(_, _, _, _, _)
WMulBits(t, x, limb, i, n) ==
    IF i = 0 THEN t
    ELSE LET dbl == WAddMod(t, t, n)
             nxt == IF (limb \div 2^(i - 1)) % 2 = 1 THEN WAddMod(dbl, x, n) ELSE dbl
         IN  After(nxt, WMulBits(nxt, x, limb, i - 1, n))

\* (t * Base^j + x * y[1..j]) % n, the limbs of y taken from the top
RECURSIVE WMulLimbs(_, _, _, _, _)
WMulLimbs(t, x, y, j, n) ==
    IF j = 0 THEN t
    ELSE LET nxt == WMulBits(t, x, y[j], LimbBits, n)
         IN  After(nxt, WMulLimbs(nxt, x, y, j - 1, n))

\* (x * y) % n for x < n: nothing on the way exceeds 2n
WMulMod(x, y, n) == WMulLimbs(<<>>, x, y, Len(y), n)

\* x % n for n > 1
WMod(x, n) == WMulMod(<<1>>, x, n)

\* int.bit_length
WBitLength(x) ==
    IF x = <<>> THEN 0 ELSE LimbBits * (Len(x) - 1) + bit_length(x[Len(x)])

\* the wide integer written with the decimal digits ds
RECURSIVE WDecimalFrom(_, _, _)
WDecimalFrom(ds, i, acc) ==
    IF i > Len(ds) THEN acc
    ELSE LET x2 == WAdd(acc, acc)
             x8 == WAdd(WAdd(x2, x2), WAdd(x2, x2))
             nxt == WAdd(WAdd(x8, x2), W(ds[i]))
         IN  After(nxt, WDecimalFrom(ds, i + 1, nxt))

WDecimal(ds) == WDecimalFrom(ds, 1, <<>>)

(***************************************************************************)
(* The pieces of is_probable_prime on wide integers.                       *)
(***************************************************************************)
\* the loop of _decompose
RECURSIVE decompose_loop_wide(_, _)
decompose_loop_wide(d, s) ==
    IF ~WOdd(d) THEN decompose_loop_wide(WHalf(d), s + 1) ELSE <<d, s>>

\* _decompose(n) for n >= 2
_decompose_wide(n) == decompose_loop_wide(WSub(n, <<1>>), 0)

\* the trial-division loop of is_probable_prime from small[k] on, n >= 2
RECURSIVE trial_division_wide(_, _)
trial_division_wide(n, k) ==
    IF k > Len(small) THEN "pass"
    ELSE IF n = W(small[k]) THEN "prime"
    ELSE IF WMod(n, W(small[k])) = <<>> THEN "composite"
    ELSE trial_division_wide(n, k + 1)

\* n < (1 << 64)
BelowDetLimitWide(n) == WBitLength(n) <= DetBits

\* the wide integers of at most `limbs` limbs
WideUpTo(limbs) == {WTrim(q) : q \in UNION {[1..k -> 0..(Base - 1)] : k \in 0..limbs}}

\* the values random.randrange(2, n - 2) can return
RandRangeWide(n) ==
    {x \in WideUpTo(Len(n)) : ~WLess(x, <<2>>) /\ WLess(x, WSub(n, <<2>>))}

\* the bases of the fixed path, as wide integers
WideBases(bases) == [k \in 1..Len(bases) |-> W(bases[k])]

\* pow(a, d, n), its state before the first round: result 1, square a, the
\* exponent d still to consume (a < n, n > 1)
pow_init(a, d) == [result |-> <<1>>, sq |-> a, e |-> d]

\* one round of pow by repeated squaring, on the lowest bit of e
pow_round(pw, n) ==
    [result |-> IF WOdd(pw.e) THEN WMulMod(pw.result, pw.sq, n) ELSE pw.result,
     sq |-> WMulMod(pw.sq, pw.sq, n),
     e |-> WHalf(pw.e)]

(***************************************************************************)
(* Sieve of Eratosthenes on an odd-only bitset.                            *)
(***************************************************************************)
\* int(limit ** 0.5) for limit >= 0: the float square root, truncated; the
\* float is exact for every limit far below 2^52, so this is the integer root
Isqrt(limit) == CHOOSE k \in 0..limit : k * k <= limit /\ limit < (k + 1) * (k + 1)

\* for j in range(start, size, step): composite |= 1 << j
RECURSIVE sieve_mark(_, _, _, _)
sieve_mark(composite, j, size, step) ==
    IF j >= size THEN composite
    ELSE sieve_mark(BitOr(composite, Shl(1, j)), j + step, size, step)

\* the body of the outer loop of sieve for the odd number i
sieve_outer(composite, i, size) ==
    IF BitAnd(Shr(composite, i \div 2), 1) = 0
    THEN sieve_mark(composite, (i * i) \div 2, size, i)
    ELSE composite

\* the unmarked odd numbers 2*i + 1 <= limit for i from k to size - 1
RECURSIVE sieve_collect(_, _, _, _)
sieve_collect(composite, k, size, limit) ==
    IF k >= size THEN <<>>
    ELSE (IF BitAnd(Shr(composite, k), 1) = 0 /\ 2 * k + 1 <= limit
          THEN <<2 * k + 1>> ELSE <<>>)
         \o sieve_collect(composite, k + 1, size, limit)

RECURSIVE sieve_loop(_, _, _, _)
sieve_loop(composite, i, r, size) ==
    IF i > r THEN composite
    ELSE sieve_loop(sieve_outer(composite, i, size), i + 2, r, size)

sieve(limit) ==
    IF limit < 2 THEN <<>>
    ELSE LET size == limit \div 2
             composite == sieve_loop(0, 3, Isqrt(limit), size)
         IN  <<2>> \o sieve_collect(composite, 1, size, limit)

(***************************************************************************)
(* egcd, one loop iteration per step.                                      *)
(***************************************************************************)
Ints == (-MaxInt)..MaxInt

InitEgcd ==
    /\ eg \in {[pc |-> "loop", a |-> a, b |-> b, st |-> egcd_init(a, b)] :
                 a \in Ints, b \in Ints}
    /\ md = Idle
    /\ bi = Idle
    /\ bt = Idle
    /\ sv = Idle
    /\ mr = Idle
    /\ wt = Idle

EgcdIter ==
    /\ eg.pc = "loop"
    /\ eg.st.r # 0
    /\ eg' = [eg EXCEPT !.st = egcd_body(eg.st)]
    /\ UNCHANGED <<md, bi, bt, sv, mr, wt>>

EgcdReturn ==
    /\ eg.pc = "loop"
    /\ eg.st.r = 0
    /\ eg' = [pc |-> "done", a |-> eg.a, b |-> eg.b, st |-> eg.st,
              ret |-> egcd_result(eg.st)]
    /\ UNCHANGED <<md, bi, bt, sv, mr, wt>>

NextEgcd == EgcdIter \/ EgcdReturn

\* the loop runs on until it returns: nothing suspends it
SpecEgcd == InitEgcd /\ [][NextEgcd]_vars /\ WF_vars(NextEgcd)

(***************************************************************************)
(* modinv and modexp, one call per behaviour.                              *)
(***************************************************************************)
InitMod ==
    /\ eg = Idle
    /\ bi = Idle
    /\ bt = Idle
    /\ sv = Idle
    /\ mr = Idle
    /\ wt = Idle
    /\ \/ md \in {[pc |-> "call", op |-> "modinv", args |-> <<a, m>>] :
                    a \in Ints, m \in Ints}
       \/ md \in {[pc |-> "call", op |-> "modexp", args |-> <<base, e, m>>] :
                    base \in Ints, e \in 0..MaxExp, m \in Ints}

CallModinv ==
    /\ md.pc = "call"
    /\ md.op = "modinv"
    /\ md' = [pc |-> "done", op |-> md.op, args |-> md.args,
              ret |-> modinv(md.args[1], md.args[2])]
    /\ UNCHANGED <<eg, bi, bt, sv, mr, wt>>

CallModexp ==
    /\ md.pc = "call"
    /\ md.op = "modexp"
    /\ md' = [pc |-> "done", op |-> md.op, args |-> md.args,
              ret |-> modexp(md.args[1], md.args[2], md.args[3])]
    /\ UNCHANGED <<eg, bi, bt, sv, mr, wt>>

NextMod == CallModinv \/ CallModexp

SpecMod == InitMod /\ [][NextMod]_vars

(***************************************************************************)
(* bitset_from_indices, then bitset_iter called twice on the value built.  *)
(* One step is one next() of the caller: the generator runs from where it  *)
(* was suspended to its next yield or to its end.  gen is the generator's  *)
(* frame, out what the caller has received from it.                        *)
(***************************************************************************)
RECURSIVE SeqsUpTo(_, _)
SeqsUpTo(S, n) ==
    IF n = 0 THEN {<<>>}
    ELSE LET shorter == SeqsUpTo(S, n - 1)
         IN  shorter \cup {Append(q, e) : q \in shorter, e \in S}

InitIter ==
    /\ bi \in {[pc |-> "build", indices |-> q] : q \in SeqsUpTo(0..MaxIdx, MaxLen)}
    /\ eg = Idle
    /\ md = Idle
    /\ bt = Idle
    /\ sv = Idle
    /\ mr = Idle
    /\ wt = Idle

FromIndices ==
    /\ bi.pc = "build"
    /\ bi' = [pc |-> "built", indices |-> bi.indices,
              bs |-> bitset_from_indices(bi.indices).val, runs |-> <<>>]
    /\ UNCHANGED <<eg, md, bt, sv, mr, wt>>

\* the caller calls bitset_iter(bs): a new frame, none of the body has run
IterCall ==
    /\ bi.pc = "built"
    /\ bi' = [pc |-> "iter", indices |-> bi.indices, bs |-> bi.bs,
              runs |-> bi.runs, gen |-> gen_start(bi.bs), out |-> <<>>]
    /\ UNCHANGED <<eg, md, bt, sv, mr, wt>>

\* next(): the loop test holds and the generator suspends at the yield
IterYield ==
    /\ bi.pc = "iter"
    /\ gen_loop_head(bi.gen) # 0
    /\ LET frame == gen_suspend(gen_loop_head(bi.gen))
       IN  bi' = [bi EXCEPT !.gen = frame,
                            !.out = Append(@, bitset_iter_index(frame.lb))]
    /\ UNCHANGED <<eg, md, bt, sv, mr, wt>>

\* next(): the loop test fails and the generator ends with StopIteration;
\* after the first iteration the caller is to iterate bs again
IterExhausted ==
    /\ bi.pc = "iter"
    /\ gen_loop_head(bi.gen) = 0
    /\ bi' = [pc |-> IF Len(bi.runs) = 0 THEN "built" ELSE "done",
              indices |-> bi.indices, bs |-> bi.bs,
              runs |-> Append(bi.runs, bi.out), gen |-> gen_closed]
    /\ UNCHANGED <<eg, md, bt, sv, mr, wt>>

NextIter == FromIndices \/ IterCall \/ IterYield \/ IterExhausted

SpecIter == InitIter /\ [][NextIter]_vars /\ WF_vars(NextIter)

(***************************************************************************)
(* bitset_add / bitset_remove from the empty bitset, beside the set of     *)
(* indices they stand for.                                                 *)
(***************************************************************************)
InitSet ==
    /\ bt = [bs |-> 0, members |-> {}]
    /\ sv = Idle
    /\ mr = Idle
    /\ wt = Idle
    /\ eg = Idle
    /\ md = Idle
    /\ bi = Idle

Add(i) ==
    /\ bt' = [bs |-> bitset_add(bt.bs, i), members |-> bt.members \cup {i}]
    /\ UNCHANGED <<eg, md, bi, sv, mr, wt>>

Remove(i) ==
    /\ bt' = [bs |-> bitset_remove(bt.bs, i), members |-> bt.members \ {i}]
    /\ UNCHANGED <<eg, md, bi, sv, mr, wt>>

NextSet == (\E i \in 0..MaxBit : Add(i)) \/ (\E i \in 0..MaxBit : Remove(i))

SpecSet == InitSet /\ [][NextSet]_vars

(***************************************************************************)
(* sieve, one round of the outer loop per step.                            *)
(***************************************************************************)
InitSieve ==
    /\ sv \in {[pc |-> "start", limit |-> l] : l \in (-2)..MaxLimit}
    /\ eg = Idle
    /\ md = Idle
    /\ bi = Idle
    /\ bt = Idle
    /\ mr = Idle
    /\ wt = Idle

SieveEmpty ==
    /\ sv.pc = "start"
    /\ sv.limit < 2
    /\ sv' = [pc |-> "done", limit |-> sv.limit, primes |-> <<>>]
    /\ UNCHANGED <<eg, md, bi, bt, mr, wt>>

SieveSetup ==
    /\ sv.pc = "start"
    /\ sv.limit >= 2
    /\ sv' = [pc |-> "outer", limit |-> sv.limit, size |-> sv.limit \div 2,
              composite |-> 0, r |-> Isqrt(sv.limit), i |-> 3]
    /\ UNCHANGED <<eg, md, bi, bt, mr, wt>>

SieveOuter ==
    /\ sv.pc = "outer"
    /\ sv.i <= sv.r
    /\ sv' = [sv EXCEPT !.composite = sieve_outer(sv.composite, sv.i, sv.size),
                        !.i = @ + 2]
    /\ UNCHANGED <<eg, md, bi, bt, mr, wt>>

SieveCollect ==
    /\ sv.pc = "outer"
    /\ sv.i > sv.r
    /\ sv' = [pc |-> "done", limit |-> sv.limit,
              primes |-> <<2>> \o sieve_collect(sv.composite, 1, sv.size, sv.limit)]
    /\ UNCHANGED <<eg, md, bi, bt, mr, wt>>

NextSieve == SieveEmpty \/ SieveSetup \/ SieveOuter \/ SieveCollect

SpecSieve == InitSieve /\ [][NextSieve]_vars

(***************************************************************************)
(* is_probable_prime, one phase per step, on wide integers: every n of     *)
(* 0..MaxN and the integers of LargeInputs, all below 2^64.                *)
(***************************************************************************)
\* 341550071728321 = 10670053 * 32010157
Psi7 == WDecimal(<<3, 4, 1, 5, 5, 0, 0, 7, 1, 7, 2, 8, 3, 2, 1>>)

\* 3825123056546413051 = 149491 * 747451 * 34233211
Psi9 == WDecimal(<<3, 8, 2, 5, 1, 2, 3, 0, 5, 6, 5, 4, 6, 4, 1, 3, 0, 5, 1>>)

\* 3474749660383 = 1303 * 16927 * 157543
Psi6 == WDecimal(<<3, 4, 7, 4, 7, 4, 9, 6, 6, 0, 3, 8, 3>>)

\* 2152302898747 = 6763 * 10627 * 29947
Psi5 == WDecimal(<<2, 1, 5, 2, 3, 0, 2, 8, 9, 8, 7, 4, 7>>)

\* 3215031751 = 151 * 751 * 28351
Psi4 == WDecimal(<<3, 2, 1, 5, 0, 3, 1, 7, 5, 1>>)

\* 2^32 + 1 = 641 * 6700417
Fermat5 == WDecimal(<<4, 2, 9, 4, 9, 6, 7, 2, 9, 7>>)

\* 2^61 - 1, a prime
Mersenne61 == WDecimal(<<2, 3, 0, 5, 8, 4, 3, 0, 0, 9, 2, 1, 3, 6, 9, 3, 9, 5, 1>>)

LargeInputs == {Psi4, Psi5, Psi6, Psi7, Psi9, Fermat5, Mersenne61}

InitPrime ==
    /\ mr \in {[pc |-> "start", n |-> n, rounds |-> k] :
                 n \in {W(v) : v \in 0..MaxN} \cup LargeInputs,
                 k \in {1, DefaultRounds}}
    /\ eg = Idle
    /\ md = Idle
    /\ bi = Idle
    /\ bt = Idle
    /\ sv = Idle
    /\ wt = Idle

Verdict(v) == [pc |-> "done", n |-> mr.n, rounds |-> mr.rounds, ret |-> v]

RejectBelowTwo ==
    /\ mr.pc = "start"
    /\ WLess(mr.n, <<2>>)
    /\ mr' = Verdict(FALSE)
    /\ UNCHANGED <<eg, md, bi, bt, sv, wt>>

TrialDecides ==
    /\ mr.pc = "start"
    /\ ~WLess(mr.n, <<2>>)
    /\ trial_division_wide(mr.n, 1) # "pass"
    /\ mr' = Verdict(trial_division_wide(mr.n, 1) = "prime")
    /\ UNCHANGED <<eg, md, bi, bt, sv, wt>>

TrialPasses ==
    /\ mr.pc = "start"
    /\ ~WLess(mr.n, <<2>>)
    /\ trial_division_wide(mr.n, 1) = "pass"
    /\ mr' = [pc |-> "bases", n |-> mr.n, rounds |-> mr.rounds,
              d |-> _decompose_wide(mr.n)[1], s |-> _decompose_wide(mr.n)[2]]
    /\ UNCHANGED <<eg, md, bi, bt, sv, wt>>

\* the record of a call that is inside all(...), about to check bases[k]
AtWitness(bases, k) ==
    [pc |-> "witness", n |-> mr.n, rounds |-> mr.rounds, d |-> mr.d, s |-> mr.s,
     bases |-> bases, k |-> k]

ChooseBases ==
    /\ mr.pc = "bases"
    /\ IF BelowDetLimitWide(mr.n)
       THEN mr' = AtWitness(WideBases(_DET_BASES_64), 1)
       ELSE \E draws \in [1..mr.rounds -> RandRangeWide(mr.n)] :
              mr' = AtWitness(draws, 1)
    /\ UNCHANGED <<eg, md, bi, bt, sv, wt>>

\* all(...) has no base left: probably prime
AllPassed ==
    /\ mr.pc = "witness"
    /\ mr.k > Len(mr.bases)
    /\ mr' = Verdict(TRUE)
    /\ UNCHANGED <<eg, md, bi, bt, sv, wt>>

\* _check_witness(bases[k], s, d, n) is entered and pow(a, d, n) begins
WitnessPowBegin ==
    /\ mr.pc = "witness"
    /\ mr.k <= Len(mr.bases)
    /\ mr' = [AtWitness(mr.bases, mr.k) EXCEPT !.pc = "pow"]
               @@ [pw |-> pow_init(mr.bases[mr.k], mr.d)]
    /\ UNCHANGED <<eg, md, bi, bt, sv, wt>>

WitnessPowRound ==
    /\ mr.pc = "pow"
    /\ mr.pw.e # <<>>
    /\ mr' = [mr EXCEPT !.pw = pow_round(mr.pw, mr.n)]
    /\ UNCHANGED <<eg, md, bi, bt, sv, wt>>

\* x = pow(a, d, n) is 1 or n - 1: the witness passes, all(...) goes on
WitnessPassesAtOnce ==
    /\ mr.pc = "pow"
    /\ mr.pw.e = <<>>
    /\ mr.pw.result \in {<<1>>, WSub(mr.n, <<1>>)}
    /\ mr' = AtWitness(mr.bases, mr.k + 1)
    /\ UNCHANGED <<eg, md, bi, bt, sv, wt>>

\* x is neither: the squaring loop begins with range(s - 1) ahead
WitnessSquaresBegin ==
    /\ mr.pc = "pow"
    /\ mr.pw.e = <<>>
    /\ mr.pw.result \notin {<<1>>, WSub(mr.n, <<1>>)}
    /\ mr' = [AtWitness(mr.bases, mr.k) EXCEPT !.pc = "square"]
               @@ [x |-> mr.pw.result, left |-> mr.s - 1]
    /\ UNCHANGED <<eg, md, bi, bt, sv, wt>>

\* one round of the squaring loop; x = n - 1 passes the witness
WitnessSquare ==
    /\ mr.pc = "square"
    /\ mr.left > 0
    /\ LET sq == WMulMod(mr.x, mr.x, mr.n)
       IN  mr' = IF sq = WSub(mr.n, <<1>>)
                 THEN AtWitness(mr.bases, mr.k + 1)
                 ELSE [mr EXCEPT !.x = sq, !.left = @ - 1]
    /\ UNCHANGED <<eg, md, bi, bt, sv, wt>>

\* the loop is exhausted: the witness returns False and so does all(...)
WitnessFails ==
    /\ mr.pc = "square"
    /\ mr.left <= 0
    /\ mr' = Verdict(FALSE)
    /\ UNCHANGED <<eg, md, bi, bt, sv, wt>>

NextPrime ==
    \/ RejectBelowTwo \/ TrialDecides \/ TrialPasses \/ ChooseBases
    \/ AllPassed \/ WitnessPowBegin \/ WitnessPowRound \/ WitnessPassesAtOnce
    \/ WitnessSquaresBegin \/ WitnessSquare \/ WitnessFails

SpecPrime == InitPrime /\ [][NextPrime]_vars

(***************************************************************************)
(* _decompose and _check_witness on one base a of 2..n-2, as the           *)
(* random-witness path of is_probable_prime may draw it.                   *)
(***************************************************************************)
InitWitness ==
    /\ wt \in {[pc |-> "decompose", n |-> n, a |-> a] :
                 n \in {m \in 2..MaxW : trial_division(m, 1) = "pass"},
                 a \in 2..(MaxW - 2)}
    /\ wt.a <= wt.n - 2
    /\ eg = Idle
    /\ md = Idle
    /\ bi = Idle
    /\ bt = Idle
    /\ sv = Idle
    /\ mr = Idle

Decompose ==
    /\ wt.pc = "decompose"
    /\ wt' = [pc |-> "check", n |-> wt.n, a |-> wt.a,
              d |-> _decompose(wt.n)[1], s |-> _decompose(wt.n)[2]]
    /\ UNCHANGED <<eg, md, bi, bt, sv, mr>>

CheckWitness ==
    /\ wt.pc = "check"
    /\ wt' = [wt EXCEPT !.pc = "done"]
               @@ [ret |-> _check_witness(wt.a, wt.s, wt.d, wt.n)]
    /\ UNCHANGED <<eg, md, bi, bt, sv, mr>>

NextWitness == Decompose \/ CheckWitness

SpecWitness == InitWitness /\ [][NextWitness]_vars

(***************************************************************************)
(* Properties of egcd (checked under SpecEgcd).                            *)
(***************************************************************************)
EgcdDone == eg.pc = "done"

Bezout(a, b, res) == a * res[2] + b * res[3] = res[1]

\* C3: for non-negative a, b not both zero, egcd(a, b) = (g, x, y) with
\* a*x + b*y = g and g equal to gcd(a, b) of integer_basics.
C3_EgcdMatchesGcd ==
    (EgcdDone /\ eg.a >= 0 /\ eg.b >= 0 /\ (eg.a # 0 \/ eg.b # 0))
        => /\ Bezout(eg.a, eg.b, eg.ret)
           /\ eg.ret[1] = gcd(eg.a, eg.b)

\* a returned call on positive arguments with a proper common divisor,
\* after at least two iterations
C3_Witness ==
    /\ EgcdDone
    /\ eg.a > 0 /\ eg.b > 0
    /\ eg.ret[1] > 1
    /\ eg.ret[1] = gcd(eg.a, eg.b)
    /\ eg.ret[2] # 0 /\ eg.ret[3] # 0

\* C8: for all integers a, b the g of egcd(a, b) is >= 0, a*x + b*y = g,
\* and g = 0 only when a = b = 0.
C8_EgcdNonNegative ==
    EgcdDone
        => /\ eg.ret[1] >= 0
           /\ Bezout(eg.a, eg.b, eg.ret)
           /\ (eg.ret[1] = 0 => (eg.a = 0 /\ eg.b = 0))

\* C9: egcd terminates for all integer inputs; |r| strictly decreases on
\* every iteration, and every iteration keeps a*old_s + b*old_t = old_r and
\* a*s + b*t = r.
C9_EgcdTerminates ==
    /\ [](eg.pc = "loop"
            => /\ eg.a * eg.st.old_s + eg.b * eg.st.old_t = eg.st.old_r
               /\ eg.a * eg.st.s + eg.b * eg.st.t = eg.st.r)
    /\ [][(eg.pc = "loop" /\ eg'.pc = "loop")
            => Abs(eg'.st.r) < Abs(eg.st.r)]_vars
    /\ <>EgcdDone

\* a returned call on two negative arguments, after at least two iterations
C9_Witness ==
    /\ EgcdDone
    /\ eg.a < 0 /\ eg.b < 0
    /\ eg.st.r = 0
    /\ eg.ret[2] # 0 /\ eg.ret[3] # 0

(***************************************************************************)
(* Properties of modinv and modexp (checked under SpecMod).                *)
(***************************************************************************)
ModDone(op) == md.pc = "done" /\ md.op = op

\* C4: for every integer a and m > 1, modinv(a, m) returns x in 0..m-1 with
\* (a*x) mod m = 1 when gcd(a, m) = 1, and raises the no-inverse error
\* exactly when gcd(a, m) # 1.
C4_ModinvContract ==
    (ModDone("modinv") /\ md.args[2] > 1)
        => LET a == md.args[1]
               m == md.args[2]
           IN  IF gcd(a, m) = 1
               THEN /\ md.ret.tag = "ok"
                    /\ md.ret.val \in 0..(m - 1)
                    /\ PyMod(a * md.ret.val, m) = 1
               ELSE md.ret = Raise("ValueError")

\* an inverse, other than 1, returned for a negative a
C4_Witness ==
    /\ ModDone("modinv")
    /\ md.args[1] < 0 /\ md.args[2] > 1
    /\ md.ret.tag = "ok"
    /\ md.ret.val > 1

\* C7: for every m <= 0, modinv(a, m) and modexp(base, exp, m) raise
\* ValueError (the invalid-argument error).
C7_NonPositiveModulusRejected ==
    /\ (ModDone("modinv") /\ md.args[2] <= 0) => md.ret = Raise("ValueError")
    /\ (ModDone("modexp") /\ md.args[3] <= 0) => md.ret = Raise("ValueError")

(***************************************************************************)
(* Properties of the bitset (checked under SpecIter and SpecSet).          *)
(***************************************************************************)
Range(q) == {q[k] : k \in 1..Len(q)}

StrictlyAscending(q) == \A k \in 1..(Len(q) - 1) : q[k] < q[k + 1]

\* the elements of a finite set of integers, ascending
RECURSIVE Ascending(_)
Ascending(S) ==
    IF S = {} THEN <<>>
    ELSE LET least == CHOOSE e \in S : \A f \in S : e <= f
         IN  <<least>> \o Ascending(S \ {least})

\* C5: iterating bitset_iter(bitset_from_indices(S)) terminates and yields
\* exactly the distinct elements of S, strictly ascending, each once; a second
\* iteration of the same bitset value yields the same sequence.
C5_BitsetRoundTrip ==
    /\ [](bi.pc = "done"
            => /\ Range(bi.runs[1]) = Range(bi.indices)
               /\ StrictlyAscending(bi.runs[1])
               /\ bi.runs[2] = bi.runs[1]
               /\ bitset_iter(bi.bs) = bi.runs[1])
    /\ <>(bi.pc = "done")

\* both iterations are over, of a collection with a repeated element that is
\* not given in ascending order
C5_Witness ==
    /\ bi.pc = "done"
    /\ Len(bi.indices) = 3
    /\ bi.indices[1] > bi.indices[2]
    /\ bi.indices[3] = bi.indices[1]
    /\ Len(bi.runs[1]) = 2

\* C6: after any sequence of bitset_add / bitset_remove from the empty bitset
\* the integer is non-negative and is bitset_from_indices of the set built by
\* the same insertions and deletions; bitset_contains is true exactly for the
\* members; an add or remove of i leaves every j # i as it was; a repeated add
\* or remove changes nothing.
C6_BitsetRefinesSet ==
    /\ bt.bs >= 0
    /\ Ok(bt.bs) = bitset_from_indices(Ascending(bt.members))
    /\ \A i \in 0..MaxBit :
         /\ bitset_contains(bt.bs, i) <=> i \in bt.members
         /\ bitset_contains(bitset_add(bt.bs, i), i)
         /\ ~bitset_contains(bitset_remove(bt.bs, i), i)
         /\ bitset_add(bitset_add(bt.bs, i), i) = bitset_add(bt.bs, i)
         /\ bitset_remove(bitset_remove(bt.bs, i), i) = bitset_remove(bt.bs, i)
         /\ \A j \in (0..MaxBit) \ {i} :
              /\ bitset_contains(bitset_add(bt.bs, i), j)
                   <=> bitset_contains(bt.bs, j)
              /\ bitset_contains(bitset_remove(bt.bs, i), j)
                   <=> bitset_contains(bt.bs, j)

\* a bitset built by the operations that holds index 1 and the top index,
\* in step with its set of members
C6_Witness ==
    /\ bt.members = {1, MaxBit}
    /\ bt.bs = 2 + 2^MaxBit

(***************************************************************************)
(* Properties of sieve and of the primality test (checked under SpecSieve, *)
(* SpecPrime and SpecWitness).                                             *)
(***************************************************************************)
\* ground truth, by definition
IsPrime(n) == n >= 2 /\ \A k \in 2..(n - 1) : n % k # 0

\* C1: sieve(limit) is exactly the primes p <= limit, ascending, nothing
\* missing and nothing extra; empty for limit < 2, <<2>> for limit = 2, and
\* limit itself is included when it is prime.
C1_SieveExact ==
    sv.pc = "done"
        => /\ Range(sv.primes) = {p \in 2..sv.limit : IsPrime(p)}
           /\ StrictlyAscending(sv.primes)

\* the divisors that settle the integers of LargeInputs
KnownFactors == {W(10670053), W(149491), W(1303), W(6763), W(151), W(641)}

\* f is a divisor of n other than 1 and n
ProperDivisor(f, n) == WLess(<<1>>, f) /\ WLess(f, n) /\ WMod(n, f) = <<>>

\* C2: in the deterministic range (n < 2^64) is_probable_prime(n) is true iff
\* n is prime, whatever rounds is; n < 2 gives false.  For n of one limb
\* primality is decided by definition; beyond, a verdict of true is wrong
\* for an n with a proper divisor, and true is due for the prime 2^61 - 1.
\* Violated at n = 341550071728321 = 10670053 * 32010157 (and at
\* 3825123056546413051), which pass trial division and all seven bases.
C2_DeterministicVerdict ==
    mr.pc = "done"
        => /\ Len(mr.n) <= 1 => (mr.ret <=> IsPrime(WSmall(mr.n)))
           /\ mr.ret => ~\E f \in KnownFactors : ProperDivisor(f, mr.n)
           /\ mr.n = Mersenne61 => mr.ret

\* C10: for every prime n that passes trial division and every base a of
\* 2..n-2, _check_witness(a, s, d, n) with (d, s) = _decompose(n) is true: no
\* witness, fixed or drawn, calls a prime composite.
C10_NoFalseComposite ==
    (wt.pc = "done" /\ IsPrime(wt.n)) => wt.ret = TRUE

\* a base that passes only inside the squaring loop
C10_Witness ==
    /\ wt.pc = "done"
    /\ IsPrime(wt.n)
    /\ wt.s > 1
    /\ PowMod(wt.a, wt.d, wt.n) \notin {1, wt.n - 1}
    /\ wt.ret = TRUE

====
